---- MODULE Spec2Model ----
(***************************************************************************)
(* A model of LuaWrapper (src/luawrapper.hpp), the singleton that wraps    *)
(* the Lua C API: the operand stack, the globals, the tables of the heap   *)
(* and the registry used by luaL_ref / luaL_unref, the singleton's own     *)
(* life cycle, script files and the file bridge.  The Lua C API calls the  *)
(* wrapper makes are modelled by what the Lua 5.1 reference manual and     *)
(* lauxlib.c say they do.                                                  *)
(*                                                                         *)
(* Numbers (lua_Number, a double) are represented by the integer 2*x, so   *)
(* that 2.5 is the model value 5; C ints are plain integers.               *)
(***************************************************************************)
EXTENDS Integers, Sequences, FiniteSets, TLC

VARIABLES
  stack,     \* the operand stack of m_luastate, bottom first
  globals,   \* the global namespace: name -> value
  tables,    \* the table objects of the heap: table id -> (key -> value)
  registry,  \* integer keys of the table at LUA_REGISTRYINDEX
  status,    \* "ok", or how control left the wrapper for good
  last,      \* the operation that ran last: arguments, result, stack before
  prev,      \* the operation that ran before a typed pop or a pushRef
  handles,   \* the reference keys pop2Ref handed out: "live" or "spent"
  misuse,    \* how many times a spent key was passed to pushRef
  origin,    \* the value each key pop2Ref handed out was created from
  rt,        \* progress of the table round trip (createTable .. pushTableValue)
  m_LuaWrapper,  \* the static pointer to the singleton: NULL or an object
  objects,   \* the LuaWrapper objects constructed so far, in order
  m_status   \* the member m_status: NULL or the string it points to

vars ==
  <<stack, globals, tables, registry, status, last, prev, handles, misuse,
    origin, rt, m_LuaWrapper, objects, m_status>>

\* the reference registry and what its callers hold
refs == <<registry, handles, misuse, origin>>

\* the singleton: its pointer and the objects behind it
singleton == <<m_LuaWrapper, objects>>

\* the globals and the tables
heap == <<globals, tables>>

----------------------------------------------------------------------------
\* Bounds of the model.

\* pushes are enabled while the stack is lower than this
MaxDepth == 4
\* createTable is enabled while fewer tables than this exist
MaxTables == 1
\* the registry's integer keys 0..MaxRef are modelled
MaxRef == 3
\* callFunction is called with at most this many arguments
MaxArgs == 2
\* callFunction asks for at most this many results
MaxResults == 2
\* pushRef is passed a key it already redeemed at most this many times
MaxMisuse == 1
\* numerals "0", "0.5", .. up to this number (in halves) are recognised
MaxNumeral == 24
\* the destructor is followed through at most this many re-entries
MaxReentry == 2

----------------------------------------------------------------------------
\* Values: a Lua value is a tag and a payload; a C value (an argument or a
\* result of a wrapper method) has the same shape with a C tag.

NilV == [tag |-> "nil", n |-> 0, s |-> ""]
Num(h) == [tag |-> "number", n |-> h, s |-> ""]
Str(x) == [tag |-> "string", n |-> 0, s |-> x]
LUd(p) == [tag |-> "luserdata", n |-> p, s |-> ""]
Ud(p) == [tag |-> "userdata", n |-> p, s |-> ""]
Tbl(i) == [tag |-> "table", n |-> i, s |-> ""]
Fn(i) == [tag |-> "function", n |-> i, s |-> ""]

CNone == [tag |-> "none", n |-> 0, s |-> ""]
CInt(i) == [tag |-> "int", n |-> i, s |-> ""]
CDouble(h) == [tag |-> "double", n |-> h, s |-> ""]
CStr(x) == [tag |-> "cstring", n |-> 0, s |-> x]
CPtr(p) == [tag |-> "pointer", n |-> p, s |-> ""]

\* lua_pushinteger: an int becomes a lua_Number
IntToNumber(i) == 2 * i

\* the cast of a (non-negative) lua_Number to an integer drops the fraction
NumberToInt(h) == h \div 2

\* lua_Number to string as LUAI_NUMFMT "%.14g" prints it
NumToStr(h) ==
  IF h % 2 = 0 THEN ToString(h \div 2) ELSE ToString(h \div 2) \o ".5"

\* luaO_str2d: whether a string is a numeral, and the number it denotes
IsNumeral(x) == \E h \in 0..MaxNumeral : NumToStr(h) = x

StrToNum(x) == CHOOSE h \in 0..MaxNumeral : NumToStr(h) = x

----------------------------------------------------------------------------
\* The Lua C API calls the wrapper makes, on values and on stacks.

lua_isnumber(v) ==
  \/ v.tag = "number"
  \/ v.tag = "string" /\ IsNumeral(v.s)

lua_isstring(v) == v.tag \in {"string", "number"}

lua_isuserdata(v) == v.tag \in {"userdata", "luserdata"}

lua_istable(v) == v.tag = "table"

lua_isfunction(v) == v.tag = "function"

lua_isnil(v) == v.tag = "nil"

lua_tonumber(v) ==
  IF v.tag = "number" THEN v.n
  ELSE IF v.tag = "string" /\ IsNumeral(v.s) THEN StrToNum(v.s)
  ELSE 0

lua_tointeger(v) == NumberToInt(lua_tonumber(v))

\* lua_tostring returns the characters of a string or of a number, else NULL
lua_tostring(v) ==
  IF v.tag = "string" THEN CStr(v.s)
  ELSE IF v.tag = "number" THEN CStr(NumToStr(v.n))
  ELSE CPtr(0)

\* ... and it changes a number into a string in the slot it reads
Stringified(v) == IF v.tag = "number" THEN Str(NumToStr(v.n)) ELSE v

lua_touserdata(v) == IF lua_isuserdata(v) THEN CPtr(v.n) ELSE CPtr(0)

\* a settop that moves the value at a positive index to the top
lua_settop_MovesValue(s, idx) ==
  IF idx >= 1 /\ idx <= Len(s)
    THEN SubSeq(s, 1, idx - 1) \o SubSeq(s, idx + 1, Len(s)) \o <<s[idx]>>
    ELSE LET d == IF idx >= 0 THEN idx ELSE Len(s) + idx + 1
         IN  [i \in 1..d |-> IF i <= Len(s) THEN s[i] ELSE NilV]

\* lua_settop: a non-negative index is the new depth (filled with nil), a
\* negative one counts from the top
lua_settop(s, idx) ==
  LET d == IF idx >= 0 THEN idx ELSE Len(s) + idx + 1
  IN  [i \in 1..d |-> IF i <= Len(s) THEN s[i] ELSE NilV]

\* lua_pop with the "-1" of the macro forgotten: it removes a value too few
lua_pop_OneShort(s, n) == lua_settop(s, -(n))

\* #define lua_pop(L,n) lua_settop(L, -(n)-1)
lua_pop(s, n) == lua_settop(s, -(n) - 1)

\* The stack with its top value removed, and its top value.
ButTop(s) == SubSeq(s, 1, Len(s) - 1)

Top(s) == s[Len(s)]

\* The slot the frame's function lives in, just below the first stack slot:
\* nil when the host calls the wrapper, the native function itself when a
\* registered command does.
FrameSlot == {NilV, Fn(0)}

\* Slots further down belong to the caller's frame or to no frame at all.
BelowFrame == {NilV, Num(2), Tbl(0)}

\* What a read at the negative index idx can see: the stack slot when idx
\* is acceptable, otherwise whatever lies below the frame.
Slot(s, idx) ==
  LET pos == Len(s) + idx + 1
  IN  IF pos >= 1 THEN {s[pos]}
      ELSE IF pos = 0 THEN FrameSlot
      ELSE BelowFrame

----------------------------------------------------------------------------
\* The record of an operation: its name, its arguments (a, b), what it
\* returned, the stack and the registry it started from, and what the
\* engine answered (e).

NoOp ==
  [op |-> "none", a |-> CNone, b |-> CNone, ret |-> CNone, e |-> CNone,
   pre |-> <<>>, preReg |-> [k \in 0..MaxRef |-> NilV], preStatus |-> "NULL"]

Rec(op, a, b, ret, e) ==
  [op |-> op, a |-> a, b |-> b, ret |-> ret, e |-> e,
   pre |-> stack, preReg |-> registry, preStatus |-> m_status]

\* The operations that can close a two-step round trip: for them the
\* operation that ran just before is kept in prev (for instance(), to see
\* two calls in a row).
SecondSteps ==
  {"popInt", "popNumber", "popString", "popUserdata", "pushRef", "instance"}

\* what an operation that comes back leaves in the records
Answer(op, a, b, ret, e) ==
  /\ last' = Rec(op, a, b, ret, e)
  /\ prev' = IF op \in SecondSteps THEN last ELSE NoOp
  /\ status' = "ok"

\* the operation returns to its caller; the stack and heap operations touch
\* neither the singleton nor m_status
Returns(op, a, b, ret, e) ==
  /\ Answer(op, a, b, ret, e)
  /\ UNCHANGED <<singleton, m_status>>

\* luaL_error: control does not come back to the caller (lua_error jumps to
\* the enclosing protected call, or the panic function ends the process)
Raises(op, a, b, kind) ==
  /\ last' = Rec(op, a, b, CNone, CNone)
  /\ prev' = IF op \in SecondSteps THEN last ELSE NoOp
  /\ status' = kind
  /\ UNCHANGED <<stack, heap, refs, rt, singleton, m_status>>

\* a Lua C API call made outside its documented precondition
Undefined(op, a, b) == Raises(op, a, b, "undefined")

\* any operation other than the next one of the table round trip ends it
NoRoundTrip == [stage |-> 0, base |-> <<>>, tbl |-> 0, key |-> CNone, val |-> CNone]

\* createTable (stage 1), push of a string or integer key (2), push of a
\* non-nil value (3), setTable (4), pushTableValue of the key (5)
RoundTripPush(op, v) ==
  IF rt.stage = 1 /\ op \in {"pushInt", "pushString"}
    THEN [rt EXCEPT !.stage = 2, !.key = v]
  ELSE IF rt.stage = 2 /\ v.tag # "nil"
    THEN [rt EXCEPT !.stage = 3, !.val = v]
  ELSE NoRoundTrip

----------------------------------------------------------------------------
\* The globals luaL_openlibs and luaopen_commands install, and the names the
\* model looks up.

Names == {"print", "nonexistent"}

\* The null pointer.
NULL == 0

\* A LuaWrapper object as its constructor leaves it: m_luastate open, and
\* how often lua_close was called on it and its destructor was entered.
NewObject == [luastate |-> "open", closes |-> 0, destructions |-> 0]

InitGlobals == [nm \in Names |-> IF nm = "print" THEN Fn(1) ELSE NilV]

Init ==
  /\ stack = <<>>
  /\ globals = InitGlobals
  /\ tables = <<>>
  /\ registry = [k \in 0..MaxRef |-> NilV]
  /\ status = "ok"
  /\ last = NoOp
  /\ prev = NoOp
  /\ handles = <<>>
  /\ misuse = 0
  /\ origin = <<>>
  /\ rt = NoRoundTrip
  /\ m_LuaWrapper = 1
  /\ objects = <<NewObject>>
  /\ m_status = "NULL"

----------------------------------------------------------------------------
\* Engine handle: the singleton, its constructor and its destructor.

\* The process before the first instance(): the static pointer is NULL, no
\* object exists, nothing is installed.
InitEngine ==
  /\ stack = <<>>
  /\ globals = [nm \in Names |-> NilV]
  /\ tables = <<>>
  /\ registry = [k \in 0..MaxRef |-> NilV]
  /\ status = "ok"
  /\ last = NoOp
  /\ prev = NoOp
  /\ handles = <<>>
  /\ misuse = 0
  /\ origin = <<>>
  /\ rt = NoRoundTrip
  /\ m_LuaWrapper = NULL
  /\ objects = <<>>
  /\ m_status = "NULL"

\* an access that constructs an object whatever the pointer holds
Singleton_AlwaysNew(p, objs) ==
  [ptr |-> Len(objs) + 1, objs |-> Append(objs, NewObject)]

\* m_LuaWrapper ? *m_LuaWrapper : *(m_LuaWrapper = new LuaWrapper()): the
\* pointer and the objects after the access
Singleton(p, objs) ==
  IF p # NULL THEN [ptr |-> p, objs |-> objs]
  ELSE [ptr |-> Len(objs) + 1, objs |-> Append(objs, NewObject)]

\* static LuaWrapper& instance().  A construction runs the constructor:
\* luaL_newstate gives an empty stack and registry, luaL_openlibs and
\* luaopen_commands install the globals, m_status starts NULL.
instance ==
  /\ status = "ok"
  /\ LET r == Singleton(m_LuaWrapper, objects)
     IN  /\ m_LuaWrapper' = r.ptr
         /\ objects' = r.objs
         /\ Answer("instance", CNone, CNone, CPtr(r.ptr), CNone)
         /\ IF Len(r.objs) > Len(objects)
              THEN /\ stack' = <<>>
                   /\ globals' = InitGlobals
                   /\ tables' = <<>>
                   /\ registry' = [k \in 0..MaxRef |-> NilV]
                   /\ m_status' = "NULL"
              ELSE UNCHANGED <<stack, heap, registry, m_status>>
  /\ UNCHANGED <<handles, misuse, origin, rt>>

\* ~LuaWrapper() entered for the object this: m_luastate is never reset, so
\* lua_close is called on every entry; then delete m_LuaWrapper enters the
\* destructor of the object the static pointer designates, which is never
\* reset either.  reentries is how many further entries the process lives
\* through.
RECURSIVE Destructor(_, _, _, _)
Destructor(objs, this, p, reentries) ==
  LET closed == [objs EXCEPT ![this].closes = @ + 1,
                             ![this].destructions = @ + 1,
                             ![this].luastate = "closed"]
  IN  IF p = NULL \/ reentries = 0 THEN closed
      ELSE Destructor(closed, p, p, reentries - 1)

\* The destructor runs on the singleton.  Its delete m_LuaWrapper destroys
\* the object that is being destroyed and closes the closed lua_State
\* again, which is undefined: the process ends somewhere in that recursion.
teardown ==
  /\ status = "ok"
  /\ m_LuaWrapper # NULL
  /\ \E reentries \in 1..MaxReentry :
       objects' = Destructor(objects, m_LuaWrapper, m_LuaWrapper, reentries)
  /\ m_LuaWrapper' = m_LuaWrapper
  /\ last' = Rec("teardown", CPtr(m_LuaWrapper), CNone, CNone, CNone)
  /\ prev' = NoOp
  /\ status' = "undefined"
  /\ UNCHANGED <<stack, heap, refs, rt, m_status>>

----------------------------------------------------------------------------
\* Typed stack protocol.

IntInputs == {1, 10}

NumberInputs == {5}

StringInputs == {"a", "10"}

PointerInputs == {1}

\* every push extends the stack by one value; the model stops at MaxDepth.
\* A push is also the second or third step of the table round trip.
Push(op, a, v) ==
  /\ status = "ok"
  /\ Len(stack) < MaxDepth
  /\ stack' = Append(stack, v)
  /\ Returns(op, a, CNone, CNone, CNone)
  /\ rt' = RoundTripPush(op, v)
  /\ UNCHANGED <<heap, refs>>

\* void pushNumber(double n): lua_pushnumber
pushNumber(h) == Push("pushNumber", CDouble(h), Num(h))

\* void pushInt(int n): lua_pushinteger
pushInt(i) == Push("pushInt", CInt(i), Num(IntToNumber(i)))

\* void pushString(const char* s): lua_pushstring copies the characters
pushString(x) == Push("pushString", CStr(x), Str(x))

\* void pushNil(): lua_pushnil
pushNil == Push("pushNil", CNone, NilV)

\* void pushLUserdata(void* p): lua_pushlightuserdata
pushLUserdata(p) == Push("pushLUserdata", CPtr(p), LUd(p))

\* void pop(){ lua_pop( m_luastate, -1 );}
pop ==
  /\ status = "ok"
  /\ stack' = lua_pop(stack, -1)
  /\ Returns("pop", CNone, CNone, CNone, CNone)
  /\ rt' = NoRoundTrip
  /\ UNCHANGED <<heap, refs>>

\* int popInt(): lua_isnumber, lua_tointeger, lua_pop 1
popInt ==
  /\ status = "ok"
  /\ \E v \in Slot(stack, -1) :
       IF ~lua_isnumber(v) THEN Raises("popInt", CNone, CNone, "TypeMismatch")
       ELSE IF Len(stack) = 0 THEN Undefined("popInt", CNone, CNone)
       ELSE /\ stack' = lua_pop(stack, 1)
            /\ Returns("popInt", CNone, CNone, CInt(lua_tointeger(v)), CNone)
            /\ rt' = NoRoundTrip
            /\ UNCHANGED <<heap, refs>>

\* double popNumber(): lua_isnumber, lua_tonumber, lua_pop 1
popNumber ==
  /\ status = "ok"
  /\ \E v \in Slot(stack, -1) :
       IF ~lua_isnumber(v) THEN Raises("popNumber", CNone, CNone, "TypeMismatch")
       ELSE IF Len(stack) = 0 THEN Undefined("popNumber", CNone, CNone)
       ELSE /\ stack' = lua_pop(stack, 1)
            /\ Returns("popNumber", CNone, CNone, CDouble(lua_tonumber(v)), CNone)
            /\ rt' = NoRoundTrip
            /\ UNCHANGED <<heap, refs>>

\* const char* popString(): lua_isstring, lua_tostring, lua_pop 1.  The
\* result is the characters the pointer designates when popString returns.
popString ==
  /\ status = "ok"
  /\ \E v \in Slot(stack, -1) :
       IF ~lua_isstring(v) THEN Raises("popString", CNone, CNone, "TypeMismatch")
       ELSE IF Len(stack) = 0 THEN Undefined("popString", CNone, CNone)
       ELSE /\ stack' = lua_pop(stack, 1)
            /\ Returns("popString", CNone, CNone, lua_tostring(v), CNone)
            /\ rt' = NoRoundTrip
            /\ UNCHANGED <<heap, refs>>

\* void* popUserdata(): lua_isuserdata, lua_touserdata, lua_pop 1
popUserdata ==
  /\ status = "ok"
  /\ \E v \in Slot(stack, -1) :
       IF ~lua_isuserdata(v) THEN Raises("popUserdata", CNone, CNone, "TypeMismatch")
       ELSE IF Len(stack) = 0 THEN Undefined("popUserdata", CNone, CNone)
       ELSE /\ stack' = lua_pop(stack, 1)
            /\ Returns("popUserdata", CNone, CNone, lua_touserdata(v), CNone)
            /\ rt' = NoRoundTrip
            /\ UNCHANGED <<heap, refs>>

----------------------------------------------------------------------------
\* Globals.

\* void getGlobal(name): lua_getglobal pushes the value bound to the name
getGlobal(nm) == Push("getGlobal", CStr(nm), globals[nm])

\* int doesFuncExist(name): getGlobal, lua_isfunction on the top, pop()
doesFuncExist(nm) ==
  /\ status = "ok"
  /\ Len(stack) < MaxDepth
  /\ LET looked == Append(stack, globals[nm])
         funcexists == lua_isfunction(looked[Len(looked)])
     IN  /\ stack' = lua_pop(looked, -1)
         /\ Returns("doesFuncExist", CStr(nm), CNone,
                    CInt(IF funcexists THEN 1 ELSE 0), CNone)
  /\ rt' = NoRoundTrip
  /\ UNCHANGED <<heap, refs>>

----------------------------------------------------------------------------
\* Table builder.

\* lua_rawget semantics of lua_gettable on a table without metatable
lua_gettable(content, key) == IF key \in DOMAIN content THEN content[key] ELSE NilV

\* a store that changes the keys the table has and adds none
lua_settable_NoInsert(content, key, val) ==
  [k \in DOMAIN content |-> IF k = key THEN val ELSE content[k]]

\* lua_settable on a table without metatable: storing nil removes the key
lua_settable(content, key, val) ==
  IF lua_isnil(val) THEN [k \in DOMAIN content \ {key} |-> content[k]]
  ELSE [k \in DOMAIN content \cup {key} |-> IF k = key THEN val ELSE content[k]]

\* void createTable(): lua_newtable pushes a new empty table
createTable ==
  /\ status = "ok"
  /\ Len(stack) < MaxDepth
  /\ Len(tables) < MaxTables
  /\ tables' = Append(tables, <<>>)
  /\ stack' = Append(stack, Tbl(Len(tables) + 1))
  /\ rt' = [stage |-> 1, base |-> stack, tbl |-> Len(tables) + 1,
            key |-> CNone, val |-> CNone]
  /\ Returns("createTable", CNone, CNone, CNone, CNone)
  /\ UNCHANGED <<globals, refs>>

\* The Lua key a pushTableValue overload pushes for its argument.
KeyValue(a) == IF a.tag = "int" THEN Num(IntToNumber(a.n)) ELSE Str(a.s)

\* pushTableValue(int index) and pushTableValue(char* key): lua_istable at
\* -1, push of the key, lua_gettable at -2 puts the value in the key's place
pushTableValue(a) ==
  /\ status = "ok"
  /\ \E t \in Slot(stack, -1) :
       IF ~lua_istable(t) THEN Raises("pushTableValue", a, CNone, "ContractViolation")
       ELSE IF Len(stack) = 0 THEN Undefined("pushTableValue", a, CNone)
       ELSE /\ Len(stack) < MaxDepth
            /\ stack' = Append(stack, lua_gettable(tables[t.n], KeyValue(a)))
            /\ rt' = IF rt.stage = 4 /\ KeyValue(a) = rt.key
                       THEN [rt EXCEPT !.stage = 5] ELSE NoRoundTrip
            /\ Returns("pushTableValue", a, CNone, CNone, CNone)
            /\ UNCHANGED <<heap, refs>>

\* void setTable(): lua_istable at -3, lua_settable at -3 stores the value
\* on top under the key below it and pops both; a nil key is an error
setTable ==
  /\ status = "ok"
  /\ \E t \in Slot(stack, -3) :
       IF ~lua_istable(t) THEN Raises("setTable", CNone, CNone, "ContractViolation")
       ELSE IF Len(stack) < 3 THEN Undefined("setTable", CNone, CNone)
       ELSE LET key == stack[Len(stack) - 1]
                val == stack[Len(stack)]
            IN  IF lua_isnil(key) THEN Raises("setTable", CNone, CNone, "EngineError")
                ELSE /\ tables' = [tables EXCEPT ![t.n] = lua_settable(@, key, val)]
                     /\ stack' = lua_pop(stack, 2)
                     /\ rt' = IF rt.stage = 3 THEN [rt EXCEPT !.stage = 4]
                              ELSE NoRoundTrip
                     /\ Returns("setTable", CNone, CNone, CNone, CNone)
                     /\ UNCHANGED <<globals, refs>>

----------------------------------------------------------------------------
\* Call protocol.

\* The names the model looks functions up under.
FunctionNames == {"print"}

\* The arguments the model passes to scripted functions.
ArgInputs == {1}

\* What a scripted function can return, and the values it can raise.
ResultLists == {<<>>, <<Num(2)>>, [i \in 1..(MaxResults + 1) |-> Num(2)]}

ErrorValues == {Str("boom"), Num(2)}

\* A native function the host registers: it opens or closes a file, and
\* returns a file object or nothing.
Native == Fn(2)

NativeResults == {<<Ud(1)>>, <<>>}

Results(f) == IF f = Native THEN NativeResults ELSE ResultLists

\* The engine's message for a call of a value that is no function (the
\* engine also names the value's type in it).
NotCallable == Str("attempt to call a value")

\* The ways a call of f can end: a function returns some results or raises a
\* value; anything else cannot be called, which raises the engine's message.
Outcomes(f) ==
  IF lua_isfunction(f)
    THEN {[ok |-> TRUE, vals |-> rs] : rs \in Results(f)}
           \cup {[ok |-> FALSE, vals |-> <<e>>] : e \in ErrorValues}
    ELSE {[ok |-> FALSE, vals |-> <<NotCallable>>]}

\* the results of a call keep their count (what LUA_MULTRET asks for)
AdjustResults_Multret(rs, n) == rs

\* the count of results that asks for all of them
LUA_MULTRET == -1

\* the results of a call are cut or filled with nil to the count asked for;
\* LUA_MULTRET keeps them all
AdjustResults(rs, n) ==
  IF n = LUA_MULTRET THEN rs
  ELSE [i \in 1..n |-> IF i <= Len(rs) THEN rs[i] ELSE NilV]

\* a failed call that leaves the function and its arguments under the error
lua_pcall_KeepsArgs(s, nargs, nresults, out) ==
  IF out.ok
    THEN SubSeq(s, 1, Len(s) - nargs - 1) \o AdjustResults(out.vals, nresults)
    ELSE Append(s, out.vals[1])

\* lua_pcall(L, nargs, nresults, 0): the function and its nargs arguments
\* are removed; the results, or the one error value, take their place
lua_pcall(s, nargs, nresults, out) ==
  LET base == SubSeq(s, 1, Len(s) - nargs - 1)
  IN  IF out.ok THEN base \o AdjustResults(out.vals, nresults)
      ELSE Append(base, out.vals[1])

\* lua_tostring at a negative index changes a number in that slot into a
\* string; an index below the stack changes no stack slot
ToStringAt(s, idx) ==
  LET pos == Len(s) + idx + 1
  IN  IF pos >= 1 THEN [s EXCEPT ![pos] = Stringified(s[pos])] ELSE s

\* int callFunction(nargs, nresults): lua_pcall; on failure the diagnostic
\* reads lua_tostring at -(nargs+1) and at -1, and 0 is returned, else 1.
\* The model follows the calls that leave the stack within MaxDepth.
callFunction(nargs, nresults) ==
  /\ status = "ok"
  /\ IF Len(stack) < nargs + 1
       THEN Undefined("callFunction", CInt(nargs), CInt(nresults))
       ELSE \E out \in Outcomes(stack[Len(stack) - nargs]) :
              LET after == lua_pcall(stack, nargs, nresults, out)
              IN  /\ Len(after) <= MaxDepth
                  /\ IF out.ok
                       THEN /\ stack' = after
                            /\ Returns("callFunction", CInt(nargs), CInt(nresults),
                                       CInt(1), CNone)
                       ELSE /\ stack' = ToStringAt(ToStringAt(after, -(nargs + 1)), -1)
                            /\ Returns("callFunction", CInt(nargs), CInt(nresults),
                                       CInt(0), out.vals[1])
                  /\ rt' = NoRoundTrip
                  /\ UNCHANGED <<heap, refs>>

----------------------------------------------------------------------------
\* Stack shape: moveToTop and stackDump.

\* The indices the model passes to moveToTop.
IndexInputs == (-2)..MaxDepth

\* void moveToTop(int index): lua_settop(m_luastate, index).  A negative
\* index further down than the whole stack is outside lua_settop's
\* precondition.
moveToTop(index) ==
  /\ status = "ok"
  /\ IF Len(stack) + index + 1 < 0
       THEN Undefined("moveToTop", CInt(index), CNone)
       ELSE /\ stack' = lua_settop(stack, index)
            /\ Returns("moveToTop", CInt(index), CNone, CNone, CNone)
            /\ rt' = NoRoundTrip
            /\ UNCHANGED <<heap, refs>>

\* the loop of stackDump from i on: lua_tostring(m_luastate, -(i)) for
\* each i up to n; the stack it leaves and the positions it read
RECURSIVE DumpLoop(_, _, _, _)
DumpLoop(s, visited, i, n) ==
  IF i > n THEN [stack |-> s, visited |-> visited]
  ELSE DumpLoop(ToStringAt(s, -(i)), Append(visited, Len(s) - i + 1), i + 1, n)

\* void stackDump(): n = lua_gettop, then the loop.  b records the
\* positions read, ret the n printed.
stackDump ==
  /\ status = "ok"
  /\ LET n == Len(stack)
         r == DumpLoop(stack, <<>>, 1, n)
     IN  /\ stack' = r.stack
         /\ Returns("stackDump", CNone, r.visited, CInt(n), CNone)
  /\ rt' = NoRoundTrip
  /\ UNCHANGED <<heap, refs>>

----------------------------------------------------------------------------
\* Script files.

\* The status codes of lua.h and lauxlib.h.
LUA_ERRRUN == 2

LUA_ERRSYNTAX == 3

LUA_ERRFILE == 6

\* The paths the model runs: a file that does not exist, a file that does
\* not parse, and a file that parses.
Files == {"missing.script", "broken.lua", "chunk.lua"}

\* The function a loaded file is compiled to.
Chunk == Fn(3)

\* luaL_loadfile: the status, and the value it pushes: the compiled chunk,
\* or a message that names the file
luaL_loadfile(path) ==
  IF path = "missing.script"
    THEN [status |-> LUA_ERRFILE, val |-> Str("cannot open " \o path)]
  ELSE IF path = "broken.lua"
    THEN [status |-> LUA_ERRSYNTAX, val |-> Str(path \o ":1: syntax error")]
  ELSE [status |-> 0, val |-> Chunk]

\* luaL_dofile giving back the status of the call that failed
luaL_dofile_RawStatus(s, path, out) ==
  LET load == luaL_loadfile(path)
  IN  IF load.status # 0
        THEN [ret |-> load.status, stack |-> Append(s, load.val)]
        ELSE [ret |-> IF out.ok THEN 0 ELSE LUA_ERRRUN,
              stack |-> lua_pcall(Append(s, load.val), 0, LUA_MULTRET, out)]

\* #define luaL_dofile(L, fn) (luaL_loadfile(L, fn) || lua_pcall(L, 0,
\* LUA_MULTRET, 0)): the chunk is called only when the load gave status 0,
\* and || makes 1 of every status that is not 0
luaL_dofile(s, path, out) ==
  LET load == luaL_loadfile(path)
      called == lua_pcall(Append(s, load.val), 0, LUA_MULTRET, out)
      pcallStatus == IF out.ok THEN 0 ELSE LUA_ERRRUN
  IN  IF load.status # 0
        THEN [ret |-> 1, stack |-> Append(s, load.val)]
        ELSE [ret |-> IF pcallStatus # 0 THEN 1 ELSE 0, stack |-> called]

\* int doFile(filename): luaL_dofile; when it gave 1 the diagnostic reads
\* lua_tostring at -1.  e records the value the engine left as the error.
\* The model follows the runs that leave the stack within MaxDepth.
doFile(path) ==
  /\ status = "ok"
  /\ \E out \in Outcomes(luaL_loadfile(path).val) :
       LET r == luaL_dofile(stack, path, out)
           failed == luaL_loadfile(path).status # 0 \/ ~out.ok
       IN  /\ Len(r.stack) <= MaxDepth
           /\ stack' = IF r.ret = 1 THEN ToStringAt(r.stack, -1) ELSE r.stack
           /\ Returns("doFile", CStr(path), CNone, CInt(r.ret),
                      IF failed THEN Top(r.stack) ELSE CNone)
  /\ rt' = NoRoundTrip
  /\ UNCHANGED <<heap, refs>>

----------------------------------------------------------------------------
\* Resource bridge.

\* The global names the bridge looks the engine's entry points up under.
ResourceNames == {"io.open", "io.close"}

\* lua_getglobal: the value bound to a name, nil for a name never bound
lua_getglobal(g, nm) == IF nm \in DOMAIN g THEN g[nm] ELSE NilV

\* void registerFunc(funcname, f): lua_register binds the native function
\* to the global name and leaves the stack as it was
registerFunc(funcname) ==
  /\ status = "ok"
  /\ globals' = [nm \in DOMAIN globals \cup {funcname} |->
                   IF nm = funcname THEN Native ELSE globals[nm]]
  /\ Returns("registerFunc", CStr(funcname), CNone, CNone, CNone)
  /\ rt' = NoRoundTrip
  /\ UNCHANGED <<stack, tables, refs>>

\* The mode strings the model opens files with: the nine of the code and
\* two others.
Modes == {"w", "wb", "w+", "a", "ab", "a+", "r", "rb", "r+", "rw", ""}

FileNames == {"out.txt"}

FilePointers == {NULL, 1}

StatusTags == {"NULL", "_OUTPUT", "_INPUT"}

\* a classification that takes the append modes for input
ModeStatus_AppendIsInput(s) ==
  IF s \in {"w", "wb", "w+"} THEN "_OUTPUT"
  ELSE IF s \in {"a", "ab", "a+", "r", "rb", "r+"} THEN "_INPUT"
  ELSE "unsupported"

\* the strcmp chain of LuaWrapperOpenFile: the string m_status is set to,
\* or "unsupported" for the else branch that returns NULL
ModeStatus(s) ==
  IF s \in {"w", "wb", "w+"} THEN "_OUTPUT"
  ELSE IF s \in {"a", "ab", "a+"} THEN "_OUTPUT"
  ELSE IF s \in {"r", "rb", "r+"} THEN "_INPUT"
  ELSE "unsupported"

\* The engine call an operation of the bridge made: the global name the
\* function was looked up under and the number of arguments.
Call(nm, nargs) == [tag |-> "call", n |-> nargs, s |-> nm]

\* FILE* LuaWrapperOpenFile(fname, s): the mode is classified; then
\* getGlobal("io.open"), two pushString, callFunction(2, 1) with its
\* diagnostic on failure, and popUserdata, which raises when the value the
\* call left is no userdata.
LuaWrapperOpenFile(fname, s) ==
  /\ status = "ok"
  /\ IF ModeStatus(s) = "unsupported"
       THEN /\ Returns("LuaWrapperOpenFile", CStr(fname), CStr(s), CPtr(NULL), CNone)
            /\ UNCHANGED <<stack, heap, refs, rt>>
       ELSE /\ Len(stack) < MaxDepth
            /\ LET pushed == stack \o <<lua_getglobal(globals, "io.open"),
                                        Str(fname), Str(s)>>
               IN  \E out \in Outcomes(pushed[Len(stack) + 1]) :
                     LET called == lua_pcall(pushed, 2, 1, out)
                         left == IF out.ok THEN called
                                 ELSE ToStringAt(ToStringAt(called, -(2 + 1)), -1)
                     IN  /\ m_status' = ModeStatus(s)
                         /\ last' = Rec("LuaWrapperOpenFile", CStr(fname), CStr(s),
                                        IF lua_isuserdata(Top(left))
                                          THEN lua_touserdata(Top(left)) ELSE CNone,
                                        Call("io.open", 2))
                         /\ prev' = NoOp
                         /\ IF lua_isuserdata(Top(left))
                              THEN /\ stack' = lua_pop(left, 1)
                                   /\ status' = "ok"
                              ELSE /\ stack' = left
                                   /\ status' = "TypeMismatch"
            /\ rt' = NoRoundTrip
            /\ UNCHANGED <<heap, refs, singleton>>

\* a close that looks at m_status and leaves files opened for input alone
CloseFileRun_ByStatus(fp, tag, s, g, out) ==
  IF tag = "_INPUT" THEN [stack |-> s, call |-> CNone]
  ELSE [stack |-> lua_pcall(Append(s, lua_getglobal(g, "io.close")), 0, 0, out),
        call |-> Call("io.close", 0)]

\* The body of LuaWrapperCloseFile run with the argument fp and m_status =
\* tag on the stack s and the globals g: getGlobal("io.close") and
\* callFunction(0, 0), whose diagnostic reads lua_tostring at -1 twice.
CloseFileRun(fp, tag, s, g, out) ==
  LET called == lua_pcall(Append(s, lua_getglobal(g, "io.close")), 0, 0, out)
  IN  [stack |-> IF out.ok THEN called
                 ELSE ToStringAt(ToStringAt(called, -(0 + 1)), -1),
       call |-> Call("io.close", 0)]

\* void LuaWrapperCloseFile(FILE* fp)
LuaWrapperCloseFile(fp) ==
  /\ status = "ok"
  /\ Len(stack) < MaxDepth
  /\ \E out \in Outcomes(lua_getglobal(globals, "io.close")) :
       LET r == CloseFileRun(fp, m_status, stack, globals, out)
       IN  /\ stack' = r.stack
           /\ Returns("LuaWrapperCloseFile", CPtr(fp), CNone, CNone, r.call)
  /\ rt' = NoRoundTrip
  /\ UNCHANGED <<heap, refs>>

----------------------------------------------------------------------------
\* Reference registry: luaL_ref and luaL_unref on the table at
\* LUA_REGISTRYINDEX (lauxlib.c).  Key 0 (FREELIST_REF) heads the list of
\* freed keys; LUA_REFNIL (-1) is the reference of nil.

LUA_REFNIL == -1

\* lua_rawgeti(L, LUA_REGISTRYINDEX, k) reading the key after it was freed
lua_rawgeti_AfterUnref(reg, k) ==
  IF k \in DOMAIN reg /\ k # 0 THEN reg[0]
  ELSE IF k = 0 THEN Num(0)
  ELSE NilV

\* lua_rawgeti(L, LUA_REGISTRYINDEX, k): the value at integer key k, or nil
lua_rawgeti(reg, k) == IF k \in DOMAIN reg THEN reg[k] ELSE NilV

\* lua_objlen of the registry: a border, that is an n with t[n] non-nil (or
\* n = 0) and t[n+1] nil
Borders(reg) ==
  {n \in 0..MaxRef :
     /\ n = 0 \/ reg[n] # NilV
     /\ n = MaxRef \/ reg[n + 1] = NilV}

\* a luaL_ref that takes the head of the free list and leaves it the head
luaL_ref_KeepsHead(reg, v) ==
  LET free == lua_tointeger(lua_rawgeti(reg, 0))
  IN  IF free # 0
        THEN {[ref |-> free, reg |-> [reg EXCEPT ![free] = v]]}
        ELSE {[ref |-> n + 1, reg |-> [reg EXCEPT ![n + 1] = v]] : n \in Borders(reg)}

\* luaL_ref for a non-nil value v: the keys it can return with the registry
\* it leaves.  The head of the free list is reused when there is one, else
\* the key after a border is taken.
luaL_ref(reg, v) ==
  LET free == lua_tointeger(lua_rawgeti(reg, 0))
  IN  IF free # 0
        THEN {[ref |-> free,
               reg |-> [[reg EXCEPT ![0] = lua_rawgeti(reg, free)] EXCEPT ![free] = v]]}
        ELSE {[ref |-> n + 1, reg |-> [reg EXCEPT ![n + 1] = v]] : n \in Borders(reg)}

\* luaL_unref: t[ref] = t[FREELIST_REF]; t[FREELIST_REF] = ref; nothing for
\* a negative ref
luaL_unref(reg, ref) ==
  IF ref >= 0
    THEN [[reg EXCEPT ![ref] = reg[0]] EXCEPT ![0] = Num(IntToNumber(ref))]
    ELSE reg

\* The strings the model detaches.
RefStrings == {"a"}

\* The strings detached where the values of the handles are told apart.
DistinctStrings == {"a", "b"}

\* The state of a key as its holder sees it.
HandleState(k) == IF k \in DOMAIN handles THEN handles[k] ELSE "never"

\* int pop2Ref(): luaL_ref(m_luastate, LUA_REGISTRYINDEX).  b records
\* whether the returned key was free or still held ("live") by a caller;
\* LUA_REFNIL names no registry entry and is always free.
pop2Ref ==
  /\ status = "ok"
  /\ \E v \in Slot(stack, -1) :
       IF Len(stack) = 0 THEN Undefined("pop2Ref", CNone, CNone)
       ELSE IF lua_isnil(v)
         THEN /\ stack' = lua_pop(stack, 1)
              /\ registry' = registry
              /\ handles' = [k \in DOMAIN handles \cup {LUA_REFNIL} |->
                               IF k = LUA_REFNIL THEN "live" ELSE handles[k]]
              /\ Returns("pop2Ref", CNone, CStr("free"), CInt(LUA_REFNIL), CNone)
              /\ rt' = NoRoundTrip
              /\ misuse' = misuse
              /\ origin' = origin
              /\ UNCHANGED heap
         ELSE \E r \in luaL_ref(registry, v) :
                /\ r.ref \in 1..MaxRef
                /\ stack' = lua_pop(stack, 1)
                /\ registry' = r.reg
                /\ handles' = [k \in DOMAIN handles \cup {r.ref} |->
                                 IF k = r.ref THEN "live" ELSE handles[k]]
                /\ Returns("pop2Ref", CNone,
                           CStr(IF HandleState(r.ref) = "live" THEN "live" ELSE "free"),
                           CInt(r.ref), CNone)
                /\ rt' = NoRoundTrip
                /\ misuse' = misuse
                /\ origin' = [k \in DOMAIN origin \cup {r.ref} |->
                                IF k = r.ref THEN v ELSE origin[k]]
                /\ UNCHANGED heap

\* void pushRef(int refval): lua_rawgeti, then luaL_unref.  The caller
\* passes a key pop2Ref gave it at some time; b records the key's state.
pushRef(refval) ==
  /\ status = "ok"
  /\ Len(stack) < MaxDepth
  /\ refval \in DOMAIN handles
  /\ handles[refval] = "spent" => misuse < MaxMisuse
  /\ misuse' = IF handles[refval] = "spent" THEN misuse + 1 ELSE misuse
  /\ stack' = Append(stack, lua_rawgeti(registry, refval))
  /\ registry' = luaL_unref(registry, refval)
  /\ handles' = [handles EXCEPT ![refval] = IF refval >= 0 THEN "spent" ELSE @]
  /\ Returns("pushRef", CInt(refval), CStr(HandleState(refval)), CNone, CNone)
  /\ origin' = origin
  /\ rt' = NoRoundTrip
  /\ UNCHANGED heap

----------------------------------------------------------------------------
\* The typed stack protocol and the lookup of globals.

Next ==
  \/ \E i \in IntInputs : pushInt(i)
  \/ \E h \in NumberInputs : pushNumber(h)
  \/ \E x \in StringInputs : pushString(x)
  \/ pushNil
  \/ \E p \in PointerInputs : pushLUserdata(p)
  \/ pop
  \/ popInt
  \/ popNumber
  \/ popString
  \/ popUserdata
  \/ \E nm \in Names : getGlobal(nm)
  \/ \E nm \in Names : doesFuncExist(nm)

Spec == Init /\ [][Next]_vars

\* The call protocol: a function and its arguments are pushed and called.
NextCall ==
  \/ \E i \in ArgInputs : pushInt(i)
  \/ \E nm \in FunctionNames : getGlobal(nm)
  \/ \E nargs \in 0..MaxArgs, nresults \in 0..MaxResults : callFunction(nargs, nresults)

SpecCall == Init /\ [][NextCall]_vars

\* The reference registry: values are pushed, detached and reattached.
NextRef ==
  \/ \E x \in RefStrings : pushString(x)
  \/ pushNil
  \/ pop2Ref
  \/ \E k \in LUA_REFNIL..MaxRef : pushRef(k)

SpecRef == Init /\ [][NextRef]_vars

\* The reference registry used as documented: every key is redeemed at
\* most once after each time pop2Ref hands it out.
NextRefOnce ==
  \/ \E x \in DistinctStrings : pushString(x)
  \/ pushNil
  \/ pop2Ref
  \/ \E k \in LUA_REFNIL..MaxRef : HandleState(k) = "live" /\ pushRef(k)

SpecRefOnce == Init /\ [][NextRefOnce]_vars

\* The table builder: tables are created, filled and read.
NextTable ==
  \/ createTable
  \/ \E i \in ArgInputs : pushInt(i)
  \/ \E x \in RefStrings : pushString(x)
  \/ pushNil
  \/ setTable
  \/ \E i \in ArgInputs : pushTableValue(CInt(i))
  \/ \E x \in RefStrings : pushTableValue(CStr(x))

SpecTable == Init /\ [][NextTable]_vars

\* Script files: files are run above a base of numbers, and what they leave
\* is popped.
NextFile ==
  \/ \E i \in ArgInputs : pushInt(i)
  \/ \E path \in Files : doFile(path)
  \/ popString

SpecFile == Init /\ [][NextFile]_vars

\* The engine handle: the wrapper is reached through instance() and used
\* once it exists, until its destructor runs.
NextEngine ==
  \/ instance
  \/ \E i \in ArgInputs : m_LuaWrapper # NULL /\ pushInt(i)
  \/ \E x \in RefStrings : m_LuaWrapper # NULL /\ pushString(x)
  \/ m_LuaWrapper # NULL /\ popInt
  \/ teardown

SpecEngine == InitEngine /\ [][NextEngine]_vars

\* The shape of the stack: values are pushed, the stack is cut and dumped.
NextShape ==
  \/ \E i \in ArgInputs : pushInt(i)
  \/ \E x \in RefStrings : pushString(x)
  \/ pushNil
  \/ \E index \in IndexInputs : moveToTop(index)
  \/ stackDump

SpecShape == Init /\ [][NextShape]_vars

\* The resource bridge: files are opened and closed above a base of
\* numbers, with and without functions bound to the names it looks up.
NextResource ==
  \/ \E i \in ArgInputs : pushInt(i)
  \/ \E nm \in ResourceNames : registerFunc(nm)
  \/ \E fname \in FileNames, s \in Modes : LuaWrapperOpenFile(fname, s)
  \/ \E fp \in FilePointers : LuaWrapperCloseFile(fp)

SpecResource == Init /\ [][NextResource]_vars

----------------------------------------------------------------------------
\* C1: on a stack of depth d >= 1, pop() removes exactly the top value: the
\* depth becomes d-1 and positions 1..d-1 keep their values.
C1_PopRemovesTop ==
  (last.op = "pop" /\ Len(last.pre) >= 1) => stack = ButTop(last.pre)

\* C2: doesFuncExist(name) returns with the stack exactly as it found it,
\* and returns false when no function is bound to the name.
C2_DoesFuncExistKeepsStack ==
  last.op = "doesFuncExist" =>
    /\ stack = last.pre
    /\ (~lua_isfunction(globals[last.a.s]) => last.ret = CInt(0))

\* The tags a typed pop is documented to expect on the top (popUserdata
\* takes both kinds of userdata, as its round trip with pushLUserdata needs).
ExpectedTags(op) ==
  IF op \in {"popInt", "popNumber"} THEN {"number"}
  ELSE IF op = "popString" THEN {"string"}
  ELSE {"userdata", "luserdata"}

TypedPops == {"popInt", "popNumber", "popString", "popUserdata"}

\* C3: a typed pop called when the tag of the top value is not the expected
\* kind fails with a type-mismatch error and returns no converted value.
C3_WrongKindAlwaysFails ==
  (/\ last.op \in TypedPops
   /\ Len(last.pre) >= 1
   /\ Top(last.pre).tag \notin ExpectedTags(last.op))
  => (status = "TypeMismatch" /\ last.ret = CNone)

\* The pop that matches a push, and the C value it must give back.
MatchingPop(op) ==
  IF op = "pushInt" THEN "popInt"
  ELSE IF op = "pushNumber" THEN "popNumber"
  ELSE IF op = "pushString" THEN "popString"
  ELSE IF op = "pushLUserdata" THEN "popUserdata"
  ELSE "no pop"

\* C4: round-trip law: push(v) immediately followed by the matching pop
\* returns a value equal to v and leaves the stack as it was before the push.
C4_PushPopRoundTrip ==
  (last.op = MatchingPop(prev.op)) =>
    /\ status = "ok"
    /\ last.ret = prev.a
    /\ stack = prev.pre

\* C4's case: a string was pushed on a non-empty stack and popped again.
C4_Witness ==
  /\ prev.op = "pushString"
  /\ last.op = "popString"
  /\ Len(prev.pre) >= 1
  /\ status = "ok"

\* C5: with a base of depth d, a function and nargs arguments on the stack,
\* a call that succeeds returns 1 and leaves the base followed by exactly
\* nresults values.
C5_CallSuccessDepth ==
  (last.op = "callFunction" /\ status = "ok" /\ last.e = CNone) =>
    LET d == Len(last.pre) - last.a.n - 1
    IN  /\ last.ret = CInt(1)
        /\ Len(stack) = d + last.b.n
        /\ SubSeq(stack, 1, d) = SubSeq(last.pre, 1, d)

\* C5's case: a call with one argument and no result succeeded above a
\* non-empty base.
C5_Witness ==
  /\ last.op = "callFunction"
  /\ last.ret = CInt(1)
  /\ last.a.n = 1
  /\ last.b.n = 0
  /\ Len(stack) >= 1

C7_DetachReattachRoundTrip ==
  /\ (last.op = "pop2Ref" /\ status = "ok") => stack = ButTop(last.pre)
  /\ (last.op = "pushRef" /\ prev.op = "pop2Ref" /\ prev.ret = last.a) =>
       /\ status = "ok"
       /\ Len(prev.pre) >= 1
       /\ stack = prev.pre

\* C7's case: a string was detached from a stack of depth 2 and reattached
\* at once.
C7_Witness ==
  /\ last.op = "pushRef"
  /\ prev.op = "pop2Ref"
  /\ prev.ret = last.a
  /\ last.a.n >= 1
  /\ Len(stack) = 2
  /\ Top(stack).tag = "string"

\* C8: once pushRef(k) has redeemed key k, a later pushRef(k) with the same
\* key fails: it pushes nothing and leaves the registry as it is.
C8_SecondRedeemFails ==
  (last.op = "pushRef" /\ last.b = CStr("spent")) =>
    /\ stack = last.pre
    /\ registry = last.preReg

\* C9: table round trip: on a stack of depth d, createTable(); push(key);
\* push(value); setTable(); pushTableValue(key), with a string or integer
\* key and a non-nil value, raises nowhere and ends at depth d+2: positions
\* 1..d unchanged, the created table at d+1, the value at d+2.
C9_TableRoundTrip ==
  /\ (rt.stage = 5 /\ status = "ok") =>
       stack = rt.base \o <<Tbl(rt.tbl), rt.val>>
  /\ ~(rt.stage = 3 /\ last.op = "setTable" /\ status # "ok")
  /\ ~(/\ rt.stage = 4
       /\ last.op = "pushTableValue"
       /\ KeyValue(last.a) = rt.key
       /\ status # "ok")

\* C9's case: the round trip ran on a non-empty stack with a string key and
\* a number value.
C9_Witness ==
  /\ rt.stage = 5
  /\ status = "ok"
  /\ Len(rt.base) >= 1
  /\ rt.key.tag = "string"
  /\ rt.val.tag = "number"
  /\ Len(stack) = Len(rt.base) + 2

\* C10: pushTableValue called when the top is not a table (an empty stack
\* included) and setTable called when the value three from the top is not a
\* table (a stack of fewer than three values included) raise a contract
\* violation and push, look up and store nothing.
C10_TableOpsCheckShape ==
  /\ (/\ last.op = "pushTableValue"
      /\ (Len(last.pre) = 0 \/ ~lua_istable(Top(last.pre))))
     => (status = "ContractViolation" /\ stack = last.pre)
  /\ (/\ last.op = "setTable"
      /\ (Len(last.pre) < 3 \/ ~lua_istable(last.pre[Len(last.pre) - 2])))
     => (status = "ContractViolation" /\ stack = last.pre)

\* C11: doFile(path) returns 1 when the file cannot be loaded or its
\* execution fails and 0 only on success; on failure the engine's error
\* message is the top of the stack, one above the values that were there,
\* which are unchanged, and the wrapper can be used further.
C11_DoFileFailure ==
  last.op = "doFile" =>
    /\ status = "ok"
    /\ last.ret \in {CInt(0), CInt(1)}
    /\ (last.ret = CInt(0)) <=> (last.e = CNone)
    /\ (last.a.s = "missing.script") => (last.ret = CInt(1))
    /\ (last.ret = CInt(1)) =>
         /\ Len(stack) = Len(last.pre) + 1
         /\ ButTop(stack) = last.pre
         /\ Top(stack) = Stringified(last.e)
         /\ Top(stack).tag = "string"

\* C11's case: a file that does not exist was run above a base of two
\* values.
C11_Witness ==
  /\ last.op = "doFile"
  /\ last.a.s = "missing.script"
  /\ last.ret = CInt(1)
  /\ Len(last.pre) = 2
  /\ Len(stack) = 3

\* C12: in every sequence of instance() calls the engine is constructed
\* exactly once: the first call constructs it (runtime opened, libraries and
\* native commands installed once), every later call returns that same
\* object and constructs nothing.
C12_ConstructedOnce ==
  /\ Len(objects) <= 1
  /\ (m_LuaWrapper = NULL) <=> (Len(objects) = 0)
  /\ last.op = "instance" =>
       /\ Len(objects) = 1
       /\ last.ret = CPtr(1)
       /\ m_LuaWrapper = 1
       /\ globals = InitGlobals
  /\ (last.op = "instance" /\ prev.op # "none") =>
       /\ stack = last.pre
       /\ last.ret = CPtr(m_LuaWrapper)

\* C12's case: instance() was called again after the wrapper had been used,
\* and gave the object of the first call.
C12_Witness ==
  /\ last.op = "instance"
  /\ prev.op = "pushInt"
  /\ Len(stack) >= 1
  /\ last.ret = CPtr(1)

\* C13: teardown closes the engine exactly once: lua_close is not called a
\* second time on the same lua_State, the object is destroyed at most once,
\* and after teardown the static pointer does not let instance() hand out
\* the closed object.
C13_TeardownClosesOnce ==
  /\ \A o \in DOMAIN objects :
       /\ objects[o].closes <= 1
       /\ objects[o].destructions <= 1
  /\ (m_LuaWrapper # NULL) => (objects[m_LuaWrapper].luastate = "open")

\* C14: LuaWrapperOpenFile classifies the mode first: for w, wb, w+, a, ab,
\* a+ the status tag becomes output-mode, for r, rb, r+ input-mode, and for
\* every other mode it returns NULL with the status tag and the stack
\* unchanged and no engine call made.
C14_ModeClassifiedFirst ==
  last.op = "LuaWrapperOpenFile" =>
    /\ (last.b.s \in {"w", "wb", "w+", "a", "ab", "a+"}) => (m_status = "_OUTPUT")
    /\ (last.b.s \in {"r", "rb", "r+"}) => (m_status = "_INPUT")
    /\ (last.b.s \notin {"w", "wb", "w+", "a", "ab", "a+", "r", "rb", "r+"}) =>
         /\ status = "ok"
         /\ last.ret = CPtr(NULL)
         /\ m_status = last.preStatus
         /\ stack = last.pre
         /\ last.e = CNone

\* C14's case: after a file was opened for input, another was opened with
\* mode a+ and the tag changed to output-mode.
C14_Witness ==
  /\ last.op = "LuaWrapperOpenFile"
  /\ last.b.s = "a+"
  /\ last.preStatus = "_INPUT"
  /\ m_status = "_OUTPUT"

C17_ResourceOpsStackNeutral ==
  (last.op \in {"LuaWrapperOpenFile", "LuaWrapperCloseFile"} /\ status = "ok") =>
    Len(stack) = Len(last.pre)

\* C15: moveToTop(index) with 1 <= index <= depth truncates the stack: the
\* depth becomes index, positions 1..index keep their values and all above
\* is discarded; the value at index is not copied or moved higher.
C15_MoveToTopTruncates ==
  (/\ last.op = "moveToTop"
   /\ last.a.n >= 1
   /\ last.a.n <= Len(last.pre))
  => /\ status = "ok"
     /\ Len(stack) = last.a.n
     /\ stack = SubSeq(last.pre, 1, last.a.n)

\* C15's case: a stack of three values was cut to its first one.
C15_Witness ==
  /\ last.op = "moveToTop"
  /\ last.a.n = 1
  /\ Len(last.pre) = 3
  /\ last.pre[1] # last.pre[3]
  /\ stack = <<last.pre[1]>>

\* C20: stackDump is a pure query: the depth, value and tag of every entry
\* are unchanged (numbers are still numbers), and each of the n entries is
\* visited exactly once.
C20_StackDumpPure ==
  last.op = "stackDump" =>
    /\ status = "ok"
    /\ stack = last.pre
    /\ last.ret = CInt(Len(last.pre))
    /\ Len(last.b) = Len(last.pre)
    /\ \A pos \in 1..Len(last.pre) :
         Cardinality({k \in 1..Len(last.b) : last.b[k] = pos}) = 1

\* C18: while no key is redeemed more than once, every outstanding handle
\* of a non-nil value maps to the value it was created from, and pop2Ref
\* never hands out a key that is still outstanding, however detaches and
\* reattaches of other handles are interleaved and keys are reused.
C18_OutstandingHandlesKeepValues ==
  (misuse = 0) =>
    /\ \A k \in DOMAIN handles :
         (k >= 1 /\ handles[k] = "live") =>
           /\ registry[k] = origin[k]
           /\ lua_rawgeti(registry, k) = origin[k]
    /\ (last.op = "pop2Ref" /\ status = "ok" /\ last.ret.n >= 1) =>
         last.b # CStr("live")

\* C18's case: two handles are outstanding; key 1 was redeemed and handed
\* out again for another value while key 2, handed out after it, stayed out.
C18_Witness ==
  /\ last.op = "pop2Ref"
  /\ last.ret = CInt(1)
  /\ last.b = CStr("free")
  /\ HandleState(2) = "live"
  /\ origin[1] = Str("b")
  /\ origin[2] = Str("a")
  /\ registry[1] = Str("b")

\* C19: when callFunction(nargs, nresults) fails, its diagnostic touches
\* only the error descriptor: every value of the base beneath the function
\* and the arguments keeps its value and its tag, and the index it reads
\* for the function name, -(nargs+1), designates an existing stack slot
\* (stated for the calls of a function, as callFunction's contract asks).
C19_DiagnosticKeepsBase ==
  (/\ last.op = "callFunction"
   /\ last.e # CNone
   /\ lua_isfunction(last.pre[Len(last.pre) - last.a.n])) =>
    LET d == Len(last.pre) - last.a.n - 1
    IN  /\ SubSeq(stack, 1, d) = SubSeq(last.pre, 1, d)
        /\ Len(stack) - (last.a.n + 1) + 1 >= 1

====
